---- MODULE Spec2Model ----
(***************************************************************************)
(* Transition projection engine 2026-2033 (IBS/CBS/IS).                    *)
(*                                                                         *)
(* Numbers.  Python floats are modelled as exact decimals:                 *)
(*   - unrounded amounts (external vBC, vIBS, vCBS, vIS, line baseCalculo, *)
(*     legacy baseline) are integers in thousandths of a currency unit;    *)
(*   - amounts that went through round(x, 2) are integers in cents;        *)
(*   - rates and decay factors of the tables are integers in 1/10000;      *)
(*   - percentages (aliqCbs, aliqIbs) are integers in 1/1000 of a percent. *)
(* round(x, 2) is round-half-to-even on the exact decimal value; the       *)
(* amounts drawn below have no exact tie, where a binary float could fall  *)
(* on the other side.                                                      *)
(*                                                                         *)
(* Python values.  A str is a sequence of one-character strings; None in   *)
(* the place of a str is NoneStr.  A dict key that may be missing is a     *)
(* sequence of length 0 (missing) or 1 (present).  External numeric fields *)
(* are numbers when present.                                               *)
(***************************************************************************)
EXTENDS Integers, Sequences, FiniteSets, TLC

VARIABLES
    mode,            \* which operation this run exercises: "IS", "A", "B",
                     \* "X" (the two extractors) or "N" (the network client)
    pc,              \* position of the operation: "start", "gather", "done", or
                     \* "raised" when an exception left it
    ncmArg,          \* detectar_is: the code under test
    isFirst,         \* detectar_is: result of the first call on ncmArg (0/1 seq)
    isRet,           \* detectar_is: result of the latest call on ncmArg (0/1 seq)
    isTrace,         \* detectar_is: the calls made so far, "arg" or "other"
    itens_input,     \* the invoice lines handed to the orchestrator
    tributos_atuais, \* the legacy baseline (0/1 seq: None or a record)
    objetos,         \* resultado["objetos"] of the external service
    pairs,           \* Mode B: per schedule index, the settled outcome of _task
    outOfOrder,      \* Mode B: some call settled after a later year's call had
    anos,            \* the returned list of year entries
    resultado2026,   \* calcular_rtc: data["resultado2026"] (0/1 seq)
    extObj,          \* extractors: the external object handed to them
    ext2026,         \* extractors: what _extrair_item_2026 returned (0/1 seq)
    extRtc,          \* extractors: what _extrair_itens_rtc returned (0/1 seq)
    fn,              \* network client: "calcular_tributos" or "_post_year"
    BASE_URL,        \* network client: the module constant, set from the
                     \* environment when the module is imported
    urls,            \* network client: the list of hosts to try
    urlIdx,          \* network client: position of the for loop in urls
    tentativas,      \* network client: the posts made so far, host and outcome
    last_error,      \* network client: last_error / last_exc
    netRet           \* network client: what the call returned or raised (0/1 seq)

vars == <<mode, pc, ncmArg, isFirst, isRet, isTrace, itens_input,
          tributos_atuais, objetos, pairs, outOfOrder, anos, resultado2026,
          extObj, ext2026, extRtc, fn, BASE_URL, urls, urlIdx, tentativas,
          last_error, netRet>>

-----------------------------------------------------------------------------
(* Bounds of the model *)

\* longest commodity code drawn for detectar_is
MaxLen == 7
\* calls of detectar_is in one run
MaxCalls == 3
\* most invoice lines, and most objects of an external result
MaxItens == 2

-----------------------------------------------------------------------------
(* Python helpers *)

Min(a, b) == IF a < b THEN a ELSE b

Digit == <<"0", "1", "2", "3", "4", "5", "6", "7", "8", "9">>

\* the 4-character string of a 4-digit prefix literal, e.g. P(2401) = "2401"
P(n) == << Digit[(n \div 1000) + 1], Digit[((n \div 100) % 10) + 1],
           Digit[((n \div 10) % 10) + 1], Digit[(n % 10) + 1] >>

\* None where a str is expected
NoneStr == << "None" >>

\* dict.get(key, default) on a key that may be missing
Get(opt, default) == IF opt = << >> THEN default ELSE opt[1]

\* the integer nearest to q + r / d (0 <= r < d), ties to the even integer
HalfEven(q, r, d) ==
    IF 2 * r < d THEN q
    ELSE IF 2 * r > d THEN q + 1
    ELSE IF q % 2 = 0 THEN q ELSE q + 1

\* round(x, 2) of an amount in thousandths, in cents
Round2(x) == HalfEven(x \div 10, x % 10, 10)

\* round(a * rate, 2) of an amount in thousandths and a rate in 1/10000, in
\* cents: a * rate / 100000, the product taken in two parts to stay in 32 bits
Round2Mul(a, rate) ==
    LET hi  == (a \div 100) * rate
        low == (hi % 1000) * 100 + (a % 100) * rate
    IN  HalfEven((hi \div 1000) + (low \div 100000), low % 100000, 100000)

\* q + r / d shifted left by k decimal digits, as quotient and remainder
RECURSIVE ShiftDiv(_, _, _, _)
ShiftDiv(q, r, d, k) ==
    IF k = 0 THEN [q |-> q, r |-> r]
    ELSE ShiftDiv(q * 10 + ((r * 10) \div d), (r * 10) % d, d, k - 1)

RECURSIVE SumSeq(_)
SumSeq(s) == IF s = << >> THEN 0 ELSE s[1] + SumSeq(Tail(s))

-----------------------------------------------------------------------------
(* Tables *)

\* mutant: prefix 2202 is also listed under the alcoholic drinks
IS_CATEGORIES_sobreposta == <<
    [prefixes |-> <<P(2401), P(2402), P(2403)>>,
     rate |-> 10000, desc |-> "Produtos fumigenos (tabaco/cigarro)"],
    [prefixes |-> <<P(2202), P(2203), P(2204), P(2205), P(2206), P(2207), P(2208)>>,
     rate |-> 2000, desc |-> "Bebidas alcoolicas"],
    [prefixes |-> <<P(2202)>>,
     rate |-> 2000, desc |-> "Bebidas acucaradas / energeticas"],
    [prefixes |-> <<P(8701), P(8702), P(8703), P(8704), P(8705), P(8706),
                    P(8707), P(8708), P(8711)>>,
     rate |-> 700, desc |-> "Veiculos automotores"],
    [prefixes |-> <<P(8901), P(8902), P(8903), P(8904), P(8905), P(8906),
                    P(8907), P(8908)>>,
     rate |-> 300, desc |-> "Embarcacoes"],
    [prefixes |-> <<P(8801), P(8802), P(8803), P(8804), P(8805)>>,
     rate |-> 300, desc |-> "Aeronaves"],
    [prefixes |-> <<P(9301), P(9302), P(9303), P(9304), P(9305), P(9306)>>,
     rate |-> 2500, desc |-> "Armas e municoes"],
    [prefixes |-> <<P(2709), P(2710), P(2711)>>,
     rate |-> 100, desc |-> "Minerais / combustiveis fosseis"] >>

IS_CATEGORIES == <<
    [prefixes |-> <<P(2401), P(2402), P(2403)>>,
     rate |-> 10000, desc |-> "Produtos fumigenos (tabaco/cigarro)"],
    [prefixes |-> <<P(2203), P(2204), P(2205), P(2206), P(2207), P(2208)>>,
     rate |-> 2000, desc |-> "Bebidas alcoolicas"],
    [prefixes |-> <<P(2202)>>,
     rate |-> 2000, desc |-> "Bebidas acucaradas / energeticas"],
    [prefixes |-> <<P(8701), P(8702), P(8703), P(8704), P(8705), P(8706),
                    P(8707), P(8708), P(8711)>>,
     rate |-> 700, desc |-> "Veiculos automotores"],
    [prefixes |-> <<P(8901), P(8902), P(8903), P(8904), P(8905), P(8906),
                    P(8907), P(8908)>>,
     rate |-> 300, desc |-> "Embarcacoes"],
    [prefixes |-> <<P(8801), P(8802), P(8803), P(8804), P(8805)>>,
     rate |-> 300, desc |-> "Aeronaves"],
    [prefixes |-> <<P(9301), P(9302), P(9303), P(9304), P(9305), P(9306)>>,
     rate |-> 2500, desc |-> "Armas e municoes"],
    [prefixes |-> <<P(2709), P(2710), P(2711)>>,
     rate |-> 100, desc |-> "Minerais / combustiveis fosseis"] >>

\* one schedule entry, its fields in the order of the table below
AnoCfg(ano, fase, descricao, cbs, ibs, aplica_is, icms, pisCofins, ipi, fonte) ==
    [ano |-> ano, fase |-> fase, descricao |-> descricao, cbs |-> cbs,
     ibs |-> ibs, aplica_is |-> aplica_is, icms_fator |-> icms,
     pisCofins_fator |-> pisCofins, ipi_fator |-> ipi, fonte |-> fonte]

\* mutant: the ICMS factor rises again in 2030 (95% after 90%)
TRANSITION_YEARS_icms2030 == <<
    AnoCfg(2026, "Fase Piloto",
           "IVA simbolico (1%) + ICMS + PIS/COFINS + IPI plenos",
           90, 10, FALSE, 10000, 10000, 10000, "api"),
    AnoCfg(2027, "Transicao Inicial",
           "CBS definitiva + ICMS pleno - PIS/COFINS/IPI extintos",
           880, 10, TRUE, 10000, 0, 0, "simulado"),
    AnoCfg(2028, "Transicao Inicial",
           "CBS definitiva + ICMS pleno - PIS/COFINS/IPI extintos",
           880, 20, TRUE, 10000, 0, 0, "simulado"),
    AnoCfg(2029, "Substituicao Gradual (10%)",
           "IBS 10% da aliquota cheia - ICMS cai para 90%",
           880, 177, TRUE, 9000, 0, 0, "simulado"),
    AnoCfg(2030, "Substituicao Gradual (20%)",
           "IBS 20% da aliquota cheia - ICMS cai para 80%",
           880, 354, TRUE, 9500, 0, 0, "simulado"),
    AnoCfg(2031, "Substituicao Gradual (30%)",
           "IBS 30% da aliquota cheia - ICMS cai para 70%",
           880, 531, TRUE, 7000, 0, 0, "simulado"),
    AnoCfg(2032, "Substituicao Gradual (40%)",
           "IBS 40% da aliquota cheia - ICMS cai para 60%",
           880, 708, TRUE, 6000, 0, 0, "simulado"),
    AnoCfg(2033, "Aliquota Cheia",
           "Plena vigencia do IVA Dual - ICMS e ISS extintos",
           880, 1770, TRUE, 0, 0, 0, "simulado") >>

TRANSITION_YEARS == <<
    [ano |-> 2026, fase |-> "Fase Piloto",
     descricao |-> "IVA simbolico (1%) + ICMS + PIS/COFINS + IPI plenos",
     cbs |-> 90, ibs |-> 10,
     aplica_is |-> FALSE,
     icms_fator |-> 10000, pisCofins_fator |-> 10000, ipi_fator |-> 10000,
     fonte |-> "api"],
    [ano |-> 2027, fase |-> "Transicao Inicial",
     descricao |-> "CBS definitiva + ICMS pleno - PIS/COFINS/IPI extintos",
     cbs |-> 880, ibs |-> 10,
     aplica_is |-> TRUE,
     icms_fator |-> 10000, pisCofins_fator |-> 0, ipi_fator |-> 0,
     fonte |-> "simulado"],
    [ano |-> 2028, fase |-> "Transicao Inicial",
     descricao |-> "CBS definitiva + ICMS pleno - PIS/COFINS/IPI extintos",
     cbs |-> 880, ibs |-> 20,
     aplica_is |-> TRUE,
     icms_fator |-> 10000, pisCofins_fator |-> 0, ipi_fator |-> 0,
     fonte |-> "simulado"],
    [ano |-> 2029, fase |-> "Substituicao Gradual (10%)",
     descricao |-> "IBS 10% da aliquota cheia - ICMS cai para 90%",
     cbs |-> 880, ibs |-> 177,
     aplica_is |-> TRUE,
     icms_fator |-> 9000, pisCofins_fator |-> 0, ipi_fator |-> 0,
     fonte |-> "simulado"],
    [ano |-> 2030, fase |-> "Substituicao Gradual (20%)",
     descricao |-> "IBS 20% da aliquota cheia - ICMS cai para 80%",
     cbs |-> 880, ibs |-> 354,
     aplica_is |-> TRUE,
     icms_fator |-> 8000, pisCofins_fator |-> 0, ipi_fator |-> 0,
     fonte |-> "simulado"],
    [ano |-> 2031, fase |-> "Substituicao Gradual (30%)",
     descricao |-> "IBS 30% da aliquota cheia - ICMS cai para 70%",
     cbs |-> 880, ibs |-> 531,
     aplica_is |-> TRUE,
     icms_fator |-> 7000, pisCofins_fator |-> 0, ipi_fator |-> 0,
     fonte |-> "simulado"],
    [ano |-> 2032, fase |-> "Substituicao Gradual (40%)",
     descricao |-> "IBS 40% da aliquota cheia - ICMS cai para 60%",
     cbs |-> 880, ibs |-> 708,
     aplica_is |-> TRUE,
     icms_fator |-> 6000, pisCofins_fator |-> 0, ipi_fator |-> 0,
     fonte |-> "simulado"],
    [ano |-> 2033, fase |-> "Aliquota Cheia",
     descricao |-> "Plena vigencia do IVA Dual - ICMS e ISS extintos",
     cbs |-> 880, ibs |-> 1770,
     aplica_is |-> TRUE,
     icms_fator |-> 0, pisCofins_fator |-> 0, ipi_fator |-> 0,
     fonte |-> "simulado"] >>

YearIdx == 1..Len(TRANSITION_YEARS)

-----------------------------------------------------------------------------
(* detectar_is *)

\* a result of detectar_is: None, a {"rate", "desc"} dict, or an exception
PyNone == [tag |-> "None"]
IsDict(cat) == [tag |-> "dict", rate |-> cat.rate, desc |-> cat.desc]
Raised(exc) == [tag |-> exc]

\* s.replace(".", "")
RemoveDots(s) == SelectSeq(s, LAMBDA c : c # ".")

\* s[:4]
Take4(s) == SubSeq(s, 1, Min(4, Len(s)))

\* prefix4 in cat["prefixes"]
InPrefixes(prefix4, cat) ==
    \E k \in 1..Len(cat.prefixes) : cat.prefixes[k] = prefix4

\* for cat in IS_CATEGORIES: if prefix4 in cat["prefixes"]: return {...}
RECURSIVE ScanCategories(_, _)
ScanCategories(prefix4, i) ==
    IF i > Len(IS_CATEGORIES) THEN PyNone
    ELSE IF InPrefixes(prefix4, IS_CATEGORIES[i]) THEN IsDict(IS_CATEGORIES[i])
    ELSE ScanCategories(prefix4, i + 1)

\* (ncm or "")
OrEmpty(ncm) == IF ncm = NoneStr \/ ncm = << >> THEN << >> ELSE ncm

\* mutant: the `or ""` guard dropped, so None.replace raises
detectar_is_noguard(ncm) ==
    IF ncm = NoneStr THEN Raised("AttributeError")
    ELSE ScanCategories(Take4(RemoveDots(ncm)), 1)

detectar_is(ncm) == ScanCategories(Take4(RemoveDots(OrEmpty(ncm))), 1)

-----------------------------------------------------------------------------
(* External result objects and invoice lines *)

\* the {} defaults of the chained .get calls
EmptyTrib == [IBSCBS |-> << >>, IS |-> << >>]
EmptyIBSCBS == [gIBSCBS |-> << >>]
EmptyG == [vBC |-> << >>, vIBS |-> << >>, gCBS |-> << >>,
           gIBSUF |-> << >>, gIBSMun |-> << >>]
EmptyGCBS == [vCBS |-> << >>, pCBS |-> << >>]
EmptyGUF == [pIBSUF |-> << >>]
EmptyGMun == [pIBSMun |-> << >>]
EmptyIS == [vIS |-> << >>]
\* the {} default of a line lookup that finds nothing
NoLine == << >>

\* calcular_rtc: the lines are renumbered 1, 2, 3... before calcular_projecao_rtc
Renumber(itens) == [k \in 1..Len(itens) |-> [itens[k] EXCEPT !.numero = k]]

\* descricao of a line result: the text of the line, or f"Item {nobj}"
Texto(t) == [texto |-> t, n |-> 0]
ItemLabel(n) == [texto |-> "Item", n |-> n]

\* float(x or 0) on a field that is a number when present
OrZero(x) == IF x = 0 THEN 0 ELSE x

\* inp.get("ncm", "") and inp.get("descricao", f"Item {nobj}") on a line or {}
LineNcm(inp) == IF inp = NoLine THEN << >> ELSE inp[1].ncm
LineDesc(inp, nobj) ==
    IF inp = NoLine THEN ItemLabel(nobj)
    ELSE IF inp[1].descricao = << >> THEN ItemLabel(nobj)
    ELSE Texto(inp[1].descricao[1])

\* next((i for i in itens_input if i.get("numero") == nobj), {})
RECURSIVE FirstByNumero(_, _)
FirstByNumero(itens, nobj) ==
    IF itens = << >> THEN NoLine
    ELSE IF itens[1].numero = nobj THEN << itens[1] >>
    ELSE FirstByNumero(Tail(itens), nobj)

\* {i.get("numero", idx + 1): i for ...}.get(nobj, {}): the last line wins a key
RECURSIVE LastByNumero(_, _)
LastByNumero(itens, nobj) ==
    IF itens = << >> THEN NoLine
    ELSE IF itens[Len(itens)].numero = nobj THEN << itens[Len(itens)] >>
    ELSE LastByNumero(SubSeq(itens, 1, Len(itens) - 1), nobj)

\* the fields both extractors read from one external object
ObjFields(obj) ==
    LET trib    == Get(obj.tribCalc, EmptyTrib)
        ibscbs  == Get(trib.IBSCBS, EmptyIBSCBS)
        gibscbs == Get(ibscbs.gIBSCBS, EmptyG)
        gCBS    == Get(gibscbs.gCBS, EmptyGCBS)
        is_trib == Get(trib.IS, EmptyIS)
    IN  [nobj    |-> Get(obj.nObj, 1),
         vBC     |-> Get(gibscbs.vBC, 0),
         vIBS    |-> Get(gibscbs.vIBS, 0),
         vCBS    |-> Get(gCBS.vCBS, 0),
         pCBS    |-> Get(gCBS.pCBS, 0),
         pIBSUF  |-> Get(Get(gibscbs.gIBSUF, EmptyGUF).pIBSUF, 0),
         pIBSMun |-> Get(Get(gibscbs.gIBSMun, EmptyGMun).pIBSMun, 0),
         vIS     |-> Get(is_trib.vIS, 0)]

\* mutant: the live-year extractor classifies the line itself
_extrair_item_2026_classifica(obj, itens) ==
    LET f   == ObjFields(obj)
        inp == FirstByNumero(itens, f.nobj)
        inf == detectar_is(LineNcm(inp))
        vIS == IF inf.tag = "dict" THEN Round2Mul(f.vBC, inf.rate) ELSE 0
    IN  [numero |-> f.nobj, ncm |-> LineNcm(inp),
         descricao |-> LineDesc(inp, f.nobj), baseCalculo |-> f.vBC,
         cbs |-> Round2(f.vCBS), ibs |-> Round2(f.vIBS), is |-> vIS,
         isInfo |-> inf, aliqCbs |-> f.pCBS, aliqIbs |-> f.pIBSUF + f.pIBSMun,
         total |-> Round2(f.vCBS + f.vIBS + 10 * vIS)]

\* mutant: vBC is read without a default, and float(None) raises
_extrair_item_2026_semDefault(obj, itens) ==
    LET f   == ObjFields(obj)
        g   == Get(Get(Get(obj.tribCalc, EmptyTrib).IBSCBS, EmptyIBSCBS).gIBSCBS, EmptyG)
        inp == FirstByNumero(itens, f.nobj)
    IN  IF g.vBC = << >> THEN Raised("TypeError")
        ELSE [numero |-> f.nobj, ncm |-> LineNcm(inp),
              descricao |-> LineDesc(inp, f.nobj), baseCalculo |-> f.vBC,
              cbs |-> Round2(f.vCBS), ibs |-> Round2(f.vIBS), is |-> Round2(f.vIS),
              isInfo |-> PyNone, aliqCbs |-> f.pCBS, aliqIbs |-> f.pIBSUF + f.pIBSMun,
              total |-> Round2(f.vCBS + f.vIBS + f.vIS)]

_extrair_item_2026(obj, itens) ==
    LET f   == ObjFields(obj)
        inp == FirstByNumero(itens, f.nobj)
    IN  [numero      |-> f.nobj,
         ncm         |-> LineNcm(inp),
         descricao   |-> LineDesc(inp, f.nobj),
         baseCalculo |-> f.vBC,
         cbs         |-> Round2(f.vCBS),
         ibs         |-> Round2(f.vIBS),
         is          |-> Round2(f.vIS),
         isInfo      |-> PyNone,
         aliqCbs     |-> f.pCBS,
         aliqIbs     |-> f.pIBSUF + f.pIBSMun,
         total       |-> Round2(f.vCBS + f.vIBS + f.vIS)]

\* one iteration of the loop of _extrair_itens_rtc
extrair_item_rtc(obj, itens) ==
    LET f   == ObjFields(obj)
        vBC == OrZero(f.vBC)
        vIBS == OrZero(f.vIBS)
        vCBS == OrZero(f.vCBS)
        vIS == OrZero(f.vIS)
        inp == LastByNumero(itens, f.nobj)
        ncm == LineNcm(inp)
    IN  [numero      |-> f.nobj,
         ncm         |-> ncm,
         descricao   |-> LineDesc(inp, f.nobj),
         baseCalculo |-> vBC,
         cbs         |-> Round2(vCBS),
         ibs         |-> Round2(vIBS),
         is          |-> Round2(vIS),
         isInfo      |-> IF vIS > 0 THEN detectar_is(ncm) ELSE PyNone,
         aliqCbs     |-> OrZero(f.pCBS),
         aliqIbs     |-> OrZero(f.pIBSUF) + OrZero(f.pIBSMun),
         total       |-> Round2(vCBS + vIBS + vIS)]

_extrair_itens_rtc(objs, itens) ==
    [k \in 1..Len(objs) |-> extrair_item_rtc(objs[k], itens)]

\* mutant: the line total is rounded once, from the unrounded products
item_projetado_total_bruto(cfg, inp) ==
    LET bc      == inp.baseCalculo
        vCBS    == Round2Mul(bc, cfg.cbs)
        vIBS    == Round2Mul(bc, cfg.ibs)
        is_info == IF cfg.aplica_is THEN detectar_is(inp.ncm) ELSE PyNone
        is_rate == IF is_info.tag = "dict" THEN is_info.rate ELSE 0
    IN  [numero |-> inp.numero, ncm |-> inp.ncm,
         descricao |-> LineDesc(<< inp >>, inp.numero), baseCalculo |-> bc,
         cbs |-> vCBS, ibs |-> vIBS, is |-> Round2Mul(bc, is_rate),
         isInfo |-> is_info, aliqCbs |-> cfg.cbs * 10, aliqIbs |-> cfg.ibs * 10,
         total |-> Round2Mul(bc, cfg.cbs + cfg.ibs + is_rate)]

\* one iteration of the projected-year loop of calcular_transicao
item_projetado(cfg, inp) ==
    LET bc      == inp.baseCalculo
        vCBS    == Round2Mul(bc, cfg.cbs)
        vIBS    == Round2Mul(bc, cfg.ibs)
        is_info == IF cfg.aplica_is THEN detectar_is(inp.ncm) ELSE PyNone
        vIS     == IF is_info.tag = "dict" THEN Round2Mul(bc, is_info.rate) ELSE 0
    IN  [numero      |-> inp.numero,
         ncm         |-> inp.ncm,
         descricao   |-> LineDesc(<< inp >>, inp.numero),
         baseCalculo |-> bc,
         cbs         |-> vCBS,
         ibs         |-> vIBS,
         is          |-> vIS,
         isInfo      |-> is_info,
         aliqCbs     |-> cfg.cbs * 10,
         aliqIbs     |-> cfg.ibs * 10,
         total       |-> Round2(10 * (vCBS + vIBS + vIS))]

-----------------------------------------------------------------------------
(* Legacy residuals and year totals *)

\* ta = tributos_atuais or {}; float(ta.get(key, 0))
ZeroTa == [vICMS |-> 0, vST |-> 0, vIPI |-> 0, vPIS |-> 0, vCOFINS |-> 0, vISS |-> 0]
Ta(ta) == Get(ta, ZeroTa)
v_icms(ta) == Ta(ta).vICMS + Ta(ta).vST + Ta(ta).vISS
v_pisCofins(ta) == Ta(ta).vPIS + Ta(ta).vCOFINS
v_ipi(ta) == Ta(ta).vIPI

\* mutant: the ISS amount is left out of the ICMS family
Residuais_semISS(cfg, ta) ==
    LET icms      == Round2Mul(Ta(ta).vICMS + Ta(ta).vST, cfg.icms_fator)
        pisCofins == Round2Mul(v_pisCofins(ta), cfg.pisCofins_fator)
        ipi       == Round2Mul(v_ipi(ta), cfg.ipi_fator)
    IN  [icms |-> icms, pisCofins |-> pisCofins, ipi |-> ipi,
         tributosAnteriores |-> Round2(10 * (icms + pisCofins + ipi))]

\* the legacy residuals of a year, in cents
Residuais(cfg, ta) ==
    LET icms      == Round2Mul(v_icms(ta), cfg.icms_fator)
        pisCofins == Round2Mul(v_pisCofins(ta), cfg.pisCofins_fator)
        ipi       == Round2Mul(v_ipi(ta), cfg.ipi_fator)
    IN  [icms |-> icms, pisCofins |-> pisCofins, ipi |-> ipi,
         tributosAnteriores |-> Round2(10 * (icms + pisCofins + ipi))]

\* mutant: Mode B decays the PIS/COFINS family with the ICMS factor
ResiduaisRtc_fatorICMS(cfg, ta) ==
    LET t         == Get(ta, ZeroTa)
        icms      == Round2Mul(t.vICMS + t.vST + t.vISS, cfg.icms_fator)
        pisCofins == Round2Mul(t.vPIS + t.vCOFINS, cfg.icms_fator)
        ipi       == Round2Mul(t.vIPI, cfg.ipi_fator)
    IN  [icms |-> icms, pisCofins |-> pisCofins, ipi |-> ipi,
         tributosAnteriores |-> Round2(10 * (icms + pisCofins + ipi))]

\* the legacy residuals of a year as calcular_projecao_rtc computes them
ResiduaisRtc(cfg, ta) ==
    LET t         == Get(ta, ZeroTa)
        icms      == Round2Mul(t.vICMS + t.vST + t.vISS, cfg.icms_fator)
        pisCofins == Round2Mul(t.vPIS + t.vCOFINS, cfg.pisCofins_fator)
        ipi       == Round2Mul(t.vIPI, cfg.ipi_fator)
    IN  [icms |-> icms, pisCofins |-> pisCofins, ipi |-> ipi,
         tributosAnteriores |-> Round2(10 * (icms + pisCofins + ipi))]

Col(itens, f) == [k \in 1..Len(itens) |-> itens[k][f]]

\* mutant: the combined total leaves the excise out
Totais_semIS(itens_ano, res) ==
    LET total_cbs == Round2(10 * SumSeq(Col(itens_ano, "cbs")))
        total_ibs == Round2(10 * SumSeq(Col(itens_ano, "ibs")))
        total_is  == Round2(10 * SumSeq(Col(itens_ano, "is")))
        total_iva == Round2(10 * (total_cbs + total_ibs))
    IN  [cbs |-> total_cbs, ibs |-> total_ibs, iva |-> total_iva, is |-> total_is,
         icms |-> res.icms, pisCofins |-> res.pisCofins, ipi |-> res.ipi,
         tributosAnteriores |-> res.tributosAnteriores,
         geral |-> Round2(10 * (total_iva + res.tributosAnteriores))]

\* the "total" dict of a year entry
Totais(itens_ano, res) ==
    LET total_cbs == Round2(10 * SumSeq(Col(itens_ano, "cbs")))
        total_ibs == Round2(10 * SumSeq(Col(itens_ano, "ibs")))
        total_is  == Round2(10 * SumSeq(Col(itens_ano, "is")))
        total_iva == Round2(10 * (total_cbs + total_ibs + total_is))
    IN  [cbs |-> total_cbs, ibs |-> total_ibs, iva |-> total_iva, is |-> total_is,
         icms |-> res.icms, pisCofins |-> res.pisCofins, ipi |-> res.ipi,
         tributosAnteriores |-> res.tributosAnteriores,
         geral |-> Round2(10 * (total_iva + res.tributosAnteriores))]

-----------------------------------------------------------------------------
(* Mode A: calcular_transicao *)

\* mutant: the projected years renumber the lines 1, 2, 3...
ItensAnoTransicao_renumera(cfg, objs, itens) ==
    IF cfg.ano = 2026
    THEN [k \in 1..Len(objs) |-> _extrair_item_2026(objs[k], itens)]
    ELSE [k \in 1..Len(itens) |-> item_projetado(cfg, Renumber(itens)[k])]

\* itens_ano of one schedule year
ItensAnoTransicao(cfg, objs, itens) ==
    IF cfg.ano = 2026
    THEN [k \in 1..Len(objs) |-> _extrair_item_2026(objs[k], itens)]
    ELSE [k \in 1..Len(itens) |-> item_projetado(cfg, itens[k])]

\* the year entry appended by one iteration of the loop over TRANSITION_YEARS
AnoTransicao(cfg, objs, itens, ta) ==
    LET itens_ano == ItensAnoTransicao(cfg, objs, itens)
    IN  [ano |-> cfg.ano, fase |-> cfg.fase, descricao |-> cfg.descricao,
         aliqCbs |-> cfg.cbs * 10, aliqIbs |-> cfg.ibs * 10,
         aplicaIS |-> cfg.aplica_is, fonte |-> cfg.fonte,
         itens |-> itens_ano,
         total |-> Totais(itens_ano, Residuais(cfg, ta))]

\* mutant: entries are put at the front of the list
AppendAno_front(lst, entry) == << entry >> \o lst

\* anos.append(entry)
AppendAno(lst, entry) == Append(lst, entry)

RECURSIVE LoopTransicao(_, _, _, _, _)
LoopTransicao(i, objs, itens, ta, acc) ==
    IF i > Len(TRANSITION_YEARS) THEN acc
    ELSE LoopTransicao(i + 1, objs, itens, ta,
             AppendAno(acc, AnoTransicao(TRANSITION_YEARS[i], objs, itens, ta)))

calcular_transicao(objs, itens, ta) == LoopTransicao(1, objs, itens, ta, << >>)

-----------------------------------------------------------------------------
(* Mode B: calcular_projecao_rtc *)

\* round(total / total_bc * 100, 3) if total_bc else 0: cents over thousandths,
\* in 1/1000 of a percent, is total * 10^6 / total_bc
AliqEfetiva(total, total_bc) ==
    IF total_bc = 0 THEN 0
    ELSE LET x == ShiftDiv(total \div total_bc, total % total_bc, total_bc, 6)
         IN  HalfEven(x.q, x.r, total_bc)

\* the year entry appended for one (cfg, resultado) pair
AnoRtc(cfg, objs, itens, ta) ==
    LET itens_ano == _extrair_itens_rtc(objs, itens)
        tot       == Totais(itens_ano, ResiduaisRtc(cfg, ta))
        total_bc  == SumSeq(Col(itens_ano, "baseCalculo"))
    IN  [ano |-> cfg.ano, fase |-> cfg.fase, descricao |-> cfg.descricao,
         aliqCbs |-> AliqEfetiva(tot.cbs, total_bc),
         aliqIbs |-> AliqEfetiva(tot.ibs, total_bc),
         aplicaIS |-> cfg.aplica_is, fonte |-> "api-rtc",
         itens |-> itens_ano,
         total |-> tot]

\* the slots of pairs: a task still in flight, the (cfg, resultado) a task
\* returned, or the exception it raised.  _post_year raises httpx.ConnectError,
\* httpx.TimeoutException or httpx.HTTPStatusError; calcular_projecao_rtc only
\* asks whether the slot is an Exception, which all three are.
Pending == [tag |-> "pending"]
Returned(i, objs) == [tag |-> "ok", cfg |-> i, objetos |-> objs]
Exc == [tag |-> "Exception"]

\* mutant: the isinstance test is lost, so no slot counts as an exception
IsException_never(pair) == FALSE

\* isinstance(pair, Exception)
IsException(pair) == pair.tag = "Exception"

\* cfg, resultado = pair raises on anything that is not the returned tuple
LoopRaises(prs) ==
    \E i \in 1..Len(prs) : ~IsException(prs[i]) /\ prs[i].tag # "ok"

\* for pair in pairs: skip the exceptions, append an entry for the others
RECURSIVE LoopPairs(_, _, _, _, _)
LoopPairs(i, prs, itens, ta, acc) ==
    IF i > Len(prs) THEN acc
    ELSE IF IsException(prs[i]) \/ prs[i].tag # "ok"
         THEN LoopPairs(i + 1, prs, itens, ta, acc)
         ELSE LoopPairs(i + 1, prs, itens, ta,
                  AppendAno(acc, AnoRtc(TRANSITION_YEARS[prs[i].cfg],
                                        prs[i].objetos, itens, ta)))

\* mutant: the wait ends as soon as one task has settled
GatherDone_first(prs) == \E i \in 1..Len(prs) : prs[i].tag # "pending"

\* asyncio.gather(..., return_exceptions=True) returns once every task settled
GatherDone(prs) == \A i \in 1..Len(prs) : prs[i].tag # "pending"

-----------------------------------------------------------------------------
(* Inputs *)

SeqsUpTo(S, n) == UNION { [1..k -> S] : k \in 0..n }

\* str literals
Str2401 == P(2401)
Str2202 == <<"2", "2", ".", "0", "2", ".", "1", "0">>
Str1006 == P(1006)
Str8703 == <<"8", "7", "0", "3", "2", "1">>

\* invoice lines as ItemInput.model_dump(exclude_none=True) gives them
LineLib == {
    [numero |-> 1, ncm |-> Str2401, baseCalculo |-> 1000000, descricao |-> <<"Cigarros">>],
    [numero |-> 2, ncm |-> Str2202, baseCalculo |-> 620, descricao |-> << >>],
    [numero |-> 7, ncm |-> Str1006, baseCalculo |-> 12344, descricao |-> <<"Arroz">>],
    [numero |-> 1, ncm |-> Str8703, baseCalculo |-> 0, descricao |-> << >>] }

\* an external object with every expected field
FullObj(n, vBC, vIBS, vCBS, vIS) ==
    [nObj |-> << n >>,
     tribCalc |-> << [IBSCBS |-> << [gIBSCBS |-> << [vBC |-> << vBC >>,
                                                     vIBS |-> << vIBS >>,
                                                     gCBS |-> << [vCBS |-> << vCBS >>, pCBS |-> << 900 >>] >>,
                                                     gIBSUF |-> << [pIBSUF |-> << 100 >>] >>,
                                                     gIBSMun |-> << [pIBSMun |-> << 0 >>] >>] >>] >>,
                      IS |-> << [vIS |-> << vIS >>] >>] >>]

\* the same without the IS group
NoISObj(n, vBC, vIBS, vCBS) ==
    [nObj |-> << n >>,
     tribCalc |-> << [IBSCBS |-> << [gIBSCBS |-> << [vBC |-> << vBC >>,
                                                     vIBS |-> << vIBS >>,
                                                     gCBS |-> << [vCBS |-> << vCBS >>, pCBS |-> << 900 >>] >>,
                                                     gIBSUF |-> << [pIBSUF |-> << 100 >>] >>,
                                                     gIBSMun |-> << [pIBSMun |-> << 0 >>] >>] >>] >>,
                      IS |-> << >>] >>]

\* an object with nothing in it
BareObj == [nObj |-> << >>, tribCalc |-> << >>]

ObjLib == {
    NoISObj(1, 1000000, 1000, 9000),
    FullObj(1, 1000000, 1000, 9000, 1000000),
    FullObj(2, 620, 4, 4, 4),
    BareObj }

TaLib == {
    << >>,
    << ZeroTa >>,
    << [vICMS |-> 500000, vST |-> 0, vIPI |-> 0, vPIS |-> 100000, vCOFINS |-> 50000, vISS |-> 0] >>,
    << [vICMS |-> 12345, vST |-> 4, vIPI |-> 1004, vPIS |-> 14, vCOFINS |-> 0, vISS |-> 10] >> }

\* the invoices, service answers and baselines of the Mode B runs
ItensB == {
    << >>,
    << [numero |-> 7, ncm |-> Str2401, baseCalculo |-> 1000000, descricao |-> <<"Cigarros">>],
       [numero |-> 7, ncm |-> Str1006, baseCalculo |-> 620, descricao |-> << >>] >> }
ObjetosB == {
    << >>,
    << NoISObj(1, 1000000, 1000, 9000), BareObj >>,
    << FullObj(1, 1000000, 1000, 9000, 1000000), FullObj(2, 620, 4, 4, 4) >> }
TaB == {
    << >>,
    << [vICMS |-> 12345, vST |-> 4, vIPI |-> 1004, vPIS |-> 14, vCOFINS |-> 0, vISS |-> 10] >> }

\* the commodity codes drawn for detectar_is: a 4-digit head (every prefix of
\* IS_CATEGORIES and some others) followed by CodeTail, with at most one
\* character inserted among the first digits, cut to at most MaxLen characters
RECURSIVE AllPrefixes(_)
AllPrefixes(i) ==
    IF i > Len(IS_CATEGORIES) THEN {}
    ELSE { IS_CATEGORIES[i].prefixes[k] : k \in 1..Len(IS_CATEGORIES[i].prefixes) }
         \cup AllPrefixes(i + 1)
Heads == AllPrefixes(1) \cup { P(1006), P(2201), P(0), P(8709) }
CodeTail == <<"1", "0", "0", "0">>
Inserts == { << >>, <<".">>, <<"-">>, <<" ">>, <<"/">>, <<"A">> }
InsertAt(s, pos, c) == SubSeq(s, 1, pos) \o c \o SubSeq(s, pos + 1, Len(s))
Codes ==
    { SubSeq(InsertAt(h \o CodeTail, pos, c), 1, n) :
        h \in Heads, pos \in 0..4, c \in Inserts, n \in 0..MaxLen }

-----------------------------------------------------------------------------
(* State machine *)

IdleIS == /\ ncmArg = << >>
          /\ isFirst = << >>
          /\ isRet = << >>
          /\ isTrace = << >>

NoPairs == [i \in YearIdx |-> Pending]

ONLINE_URL == "https://consumo.tributos.gov.br/servico/calcular-tributos-consumo"
LOCAL_URL == "http://localhost:8080"
\* a value of the CALCULADORA_URL environment variable that is neither
OUTRA_URL == "http://calculadora.interna:9000"

IdleExt == /\ extObj = BareObj
           /\ ext2026 = << >>
           /\ extRtc = << >>

IdleNet == /\ fn = "calcular_tributos"
           /\ BASE_URL = ONLINE_URL
           /\ urls = << >>
           /\ urlIdx = 0
           /\ tentativas = << >>
           /\ last_error = << >>
           /\ netRet = << >>

UnchangedExt == UNCHANGED <<extObj, ext2026, extRtc>>
UnchangedNet ==
    UNCHANGED <<fn, BASE_URL, urls, urlIdx, tentativas, last_error, netRet>>

\* POST /api/calcular: calcular_transicao on the single result and the original lines
InitA ==
    /\ mode = "A"
    /\ pc = "start"
    /\ IdleIS
    /\ IdleExt
    /\ IdleNet
    /\ resultado2026 = << >>
    /\ itens_input \in SeqsUpTo(LineLib, MaxItens)
    /\ objetos \in SeqsUpTo(ObjLib, MaxItens)
    /\ tributos_atuais \in TaLib
    /\ pairs = NoPairs
    /\ outOfOrder = FALSE
    /\ anos = << >>

\* POST /api/calcular-rtc: the eight _task coroutines are in flight
InitB ==
    /\ mode = "B"
    /\ pc = "gather"
    /\ IdleIS
    /\ IdleExt
    /\ IdleNet
    /\ resultado2026 = << >>
    /\ \E itens \in ItensB : itens_input = Renumber(itens)
    /\ objetos \in ObjetosB
    /\ tributos_atuais \in TaB
    /\ pairs = NoPairs
    /\ outOfOrder = FALSE
    /\ anos = << >>

Init == InitA \/ InitB

\* a caller about to classify ncmArg, which may be None
InitIS ==
    /\ mode = "IS"
    /\ pc = "start"
    /\ ncmArg \in Codes \cup { NoneStr }
    /\ isFirst = << >>
    /\ isRet = << >>
    /\ isTrace = << >>
    /\ IdleExt
    /\ IdleNet
    /\ resultado2026 = << >>
    /\ itens_input = << >>
    /\ objetos = << >>
    /\ tributos_atuais = << >>
    /\ pairs = NoPairs
    /\ outOfOrder = FALSE
    /\ anos = << >>

UnchangedIS == UNCHANGED <<ncmArg, isFirst, isRet, isTrace>>
UnchangedInputs == UNCHANGED <<mode, itens_input, tributos_atuais, objetos>>

CalcularTransicao ==
    /\ mode = "A"
    /\ pc = "start"
    /\ anos' = calcular_transicao(objetos, itens_input, tributos_atuais)
    /\ pc' = "done"
    /\ UNCHANGED <<pairs, outOfOrder, resultado2026>>
    /\ UnchangedIS
    /\ UnchangedExt
    /\ UnchangedNet
    /\ UnchangedInputs

\* str(x) of a number
Str(x) == [str |-> x]

\* the resultado2026 dict calcular_rtc builds from the year entry first
Resultado2026De(first) ==
    [objetos |->
        [j \in 1..Len(first.itens) |->
            LET it == first.itens[j]
            IN  [nObj |-> it.numero,
                 tribCalc |->
                    [IBSCBS |-> [gIBSCBS |-> [vBC |-> Str(it.baseCalculo),
                                              vIBS |-> Str(it.ibs),
                                              gCBS |-> [vCBS |-> Str(it.cbs),
                                                        pCBS |-> Str(it.aliqCbs)]]],
                     IS |-> [vIS |-> Str(it.is)]]]],
     total |->
        [tribCalc |->
            << [IBSCBSTot |->
                   [vBCIBSCBS |-> Str(SumSeq(Col(first.itens, "baseCalculo"))),
                    gIBS |-> [vIBS |-> Str(first.total.ibs)],
                    gCBS |-> [vCBS |-> Str(first.total.cbs)],
                    gIS |-> [vIS |-> Str(first.total.is)]]] >>]]

\* resultado2026 = {"objetos": [], "total": {}}
Resultado2026Vazio == [objetos |-> << >>, total |-> [tribCalc |-> << >>]]

\* calcular_rtc: resultado2026 is built from transicao[0] if transicao
Resultado2026Rtc(transicao) ==
    IF transicao # << >> THEN Resultado2026De(transicao[1])
    ELSE Resultado2026Vazio

\* a later year's call has already settled when call i settles
SettlesLate(i) == \E j \in YearIdx : j > i /\ pairs[j].tag # "pending"

\* _task(cfg) of schedule entry i returns (cfg, resultado)
TaskReturns(i) ==
    /\ mode = "B"
    /\ pc = "gather"
    /\ pairs[i].tag = "pending"
    /\ pairs' = [pairs EXCEPT ![i] = Returned(i, objetos)]
    /\ outOfOrder' = (outOfOrder \/ SettlesLate(i))
    /\ UNCHANGED <<pc, anos, resultado2026>>
    /\ UnchangedIS
    /\ UnchangedExt
    /\ UnchangedNet
    /\ UnchangedInputs

\* _task(cfg) of schedule entry i raises out of _post_year
TaskRaises(i) ==
    /\ mode = "B"
    /\ pc = "gather"
    /\ pairs[i].tag = "pending"
    /\ pairs' = [pairs EXCEPT ![i] = Exc]
    /\ outOfOrder' = (outOfOrder \/ SettlesLate(i))
    /\ UNCHANGED <<pc, anos, resultado2026>>
    /\ UnchangedIS
    /\ UnchangedExt
    /\ UnchangedNet
    /\ UnchangedInputs

\* gather returns, the loop over pairs builds the list, and calcular_rtc
\* builds its response from the list
Aggregate ==
    /\ mode = "B"
    /\ pc = "gather"
    /\ GatherDone(pairs)
    /\ IF LoopRaises(pairs)
       THEN /\ anos' = << >>
            /\ resultado2026' = << >>
            /\ pc' = "raised"
       ELSE /\ anos' = LoopPairs(1, pairs, itens_input, tributos_atuais, << >>)
            /\ resultado2026' = << Resultado2026Rtc(anos') >>
            /\ pc' = "done"
    /\ UNCHANGED <<pairs, outOfOrder>>
    /\ UnchangedIS
    /\ UnchangedExt
    /\ UnchangedNet
    /\ UnchangedInputs

Next ==
    \/ CalcularTransicao
    \/ \E i \in YearIdx : TaskReturns(i)
    \/ \E i \in YearIdx : TaskRaises(i)
    \/ Aggregate

Spec == Init /\ [][Next]_vars

UnchangedOrchestrator ==
    UNCHANGED <<mode, pc, itens_input, tributos_atuais, objetos, pairs,
                outOfOrder, anos, resultado2026>>

\* detectar_is(ncmArg)
ClassifyArg ==
    /\ mode = "IS"
    /\ Len(isTrace) < MaxCalls
    /\ LET ret == detectar_is(ncmArg)
       IN  /\ isFirst' = IF isFirst = << >> THEN << ret >> ELSE isFirst
           /\ isRet' = << ret >>
    /\ isTrace' = Append(isTrace, "arg")
    /\ UNCHANGED ncmArg
    /\ UnchangedExt
    /\ UnchangedNet
    /\ UnchangedOrchestrator

\* detectar_is(c) for some other code: it returns and leaves nothing behind
ClassifyOther ==
    /\ mode = "IS"
    /\ Len(isTrace) < MaxCalls
    /\ \E c \in Heads : detectar_is(c).tag \in {"None", "dict"}
    /\ isTrace' = Append(isTrace, "other")
    /\ UNCHANGED <<ncmArg, isFirst, isRet>>
    /\ UnchangedExt
    /\ UnchangedNet
    /\ UnchangedOrchestrator

NextIS == ClassifyArg \/ ClassifyOther

SpecIS == InitIS /\ [][NextIS]_vars

-----------------------------------------------------------------------------
(* The two extractors on one external object of any shape *)

\* a dict key that is missing or holds one of the values of S
Opt(S) == { << >> } \cup { << x >> : x \in S }

\* every shape of an external object: each group and each numeric field
\* present or missing
ShapesGCBS == [vCBS : Opt({9004}), pCBS : Opt({900})]
ShapesGUF == [pIBSUF : Opt({100})]
ShapesGMun == [pIBSMun : Opt({50})]
ShapesG == [vBC : Opt({1000000}), vIBS : Opt({1004}), gCBS : Opt(ShapesGCBS),
            gIBSUF : Opt(ShapesGUF), gIBSMun : Opt(ShapesGMun)]
ShapesIBSCBS == [gIBSCBS : Opt(ShapesG)]
ShapesIS == [vIS : Opt({1000004})]
ShapesTrib == [IBSCBS : Opt(ShapesIBSCBS), IS : Opt(ShapesIS)]
ObjShapes == [nObj : Opt({1, 2}), tribCalc : Opt(ShapesTrib)]

\* the invoices of the extractor runs, numbered 1, 2
ItensExt == {
    << >>,
    << [numero |-> 1, ncm |-> Str1006, baseCalculo |-> 620, descricao |-> << >>],
       [numero |-> 2, ncm |-> Str2401, baseCalculo |-> 1000000, descricao |-> <<"Cigarros">>] >> }

InitExt ==
    /\ mode = "X"
    /\ pc = "start"
    /\ IdleIS
    /\ IdleNet
    /\ resultado2026 = << >>
    /\ itens_input \in ItensExt
    /\ objetos = << >>
    /\ tributos_atuais = << >>
    /\ pairs = NoPairs
    /\ outOfOrder = FALSE
    /\ anos = << >>
    /\ extObj \in ObjShapes
    /\ ext2026 = << >>
    /\ extRtc = << >>

\* _extrair_item_2026(extObj, itens_input)
Extrair2026 ==
    /\ mode = "X"
    /\ ext2026 = << >>
    /\ ext2026' = << _extrair_item_2026(extObj, itens_input) >>
    /\ UNCHANGED <<extObj, extRtc>>
    /\ UnchangedIS
    /\ UnchangedNet
    /\ UnchangedOrchestrator

\* _extrair_itens_rtc([extObj], itens_input)
ExtrairRtc ==
    /\ mode = "X"
    /\ extRtc = << >>
    /\ extRtc' = << _extrair_itens_rtc(<< extObj >>, itens_input) >>
    /\ UNCHANGED <<extObj, ext2026>>
    /\ UnchangedIS
    /\ UnchangedNet
    /\ UnchangedOrchestrator

NextExt == Extrair2026 \/ ExtrairRtc

SpecExt == InitExt /\ [][NextExt]_vars

-----------------------------------------------------------------------------
(* The network client: calcular_tributos and _post_year *)

\* the subclasses of httpx.TimeoutException
TimeoutClasses == {"ConnectTimeout", "ReadTimeout", "WriteTimeout", "PoolTimeout"}

\* what a post to host h can end in: the parsed body of a 2xx response, an
\* exception of the transport, or the HTTPStatusError of raise_for_status
RespOk(h) == [tag |-> "ok", classe |-> "", status |-> 200, host |-> h]
TransportExc(c, h) == [tag |-> "exc", classe |-> c, status |-> 0, host |-> h]
StatusExc(st, h) == [tag |-> "exc", classe |-> "HTTPStatusError", status |-> st, host |-> h]
PostOutcomes(h) ==
    { RespOk(h) }
    \cup { TransportExc(c, h) : c \in {"ConnectError", "ReadError"} \cup TimeoutClasses }
    \cup { StatusExc(st, h) : st \in {301, 404, 500, 503} }

\* last_error = httpx.ConnectError("Calculadora indisponivel")
InitialError == TransportExc("ConnectError", "")

\* mutant: the except clause catches every exception of the post
Caught_tudo(exc) == TRUE

\* except (httpx.ConnectError, httpx.TimeoutException)
Caught(exc) == exc.classe = "ConnectError" \/ exc.classe \in TimeoutClasses

\* urls = [BASE_URL]; if BASE_URL != LOCAL_URL: urls.append(LOCAL_URL)
Urls(base) == IF base # LOCAL_URL THEN << base, LOCAL_URL >> ELSE << base >>

InitNet ==
    /\ mode = "N"
    /\ pc = "start"
    /\ IdleIS
    /\ IdleExt
    /\ resultado2026 = << >>
    /\ itens_input = << >>
    /\ objetos = << >>
    /\ tributos_atuais = << >>
    /\ pairs = NoPairs
    /\ outOfOrder = FALSE
    /\ anos = << >>
    /\ fn \in {"calcular_tributos", "_post_year"}
    /\ BASE_URL \in {ONLINE_URL, LOCAL_URL, OUTRA_URL}
    /\ urls = << >>
    /\ urlIdx = 0
    /\ tentativas = << >>
    /\ last_error = << >>
    /\ netRet = << >>

UnchangedRest ==
    /\ UNCHANGED <<mode, itens_input, tributos_atuais, objetos, pairs,
                   outOfOrder, anos, resultado2026>>
    /\ UnchangedIS
    /\ UnchangedExt

\* the call runs up to its first post
NetStart ==
    /\ mode = "N"
    /\ pc = "start"
    /\ urls' = Urls(BASE_URL)
    /\ last_error' = << InitialError >>
    /\ urlIdx' = 1
    /\ pc' = "loop"
    /\ UNCHANGED <<fn, BASE_URL, tentativas, netRet>>
    /\ UnchangedRest

\* the post to urls[urlIdx] ends in o, and the call runs on to its next post,
\* to its return or to its raise
Post ==
    /\ mode = "N"
    /\ pc = "loop"
    /\ \E o \in PostOutcomes(urls[urlIdx]) :
          /\ tentativas' = Append(tentativas, o)
          /\ IF o.tag = "ok"
             THEN /\ netRet' = << [tag |-> "return", de |-> o] >>
                  /\ pc' = "done"
                  /\ UNCHANGED <<last_error, urlIdx>>
             ELSE IF Caught(o)
             THEN /\ last_error' = << o >>
                  /\ urlIdx' = urlIdx + 1
                  /\ IF urlIdx < Len(urls)
                     THEN /\ pc' = "loop"
                          /\ UNCHANGED netRet
                     ELSE /\ pc' = "raised"
                          /\ netRet' = << [tag |-> "raise", de |-> o] >>
             ELSE /\ netRet' = << [tag |-> "raise", de |-> o] >>
                  /\ pc' = "raised"
                  /\ UNCHANGED <<last_error, urlIdx>>
    /\ UNCHANGED <<fn, BASE_URL, urls>>
    /\ UnchangedRest

NextNet == NetStart \/ Post

SpecNet == InitNet /\ [][NextNet]_vars

-----------------------------------------------------------------------------
(* Claims *)

OkYears == { i \in YearIdx : pairs[i].tag = "ok" }
FailedYears == { i \in YearIdx : pairs[i].tag = "Exception" }
Returned_B == mode = "B" /\ pc = "done"
Finished == pc = "done"
EntryIdx == 1..Len(anos)

\* C1: Mode B returns a year entry for a schedule year exactly when that
\* year's call succeeded; failed years leave no entry of any kind, and no
\* exception leaves calcular_projecao_rtc, whatever subset of the calls fails.
C1_FailedYearsOmitted ==
    (mode = "B" /\ pc # "gather") =>
        /\ pc = "done"
        /\ Len(anos) = Cardinality(OkYears)
        /\ \A i \in YearIdx :
              (i \in OkYears) <=>
                  (\E k \in EntryIdx : anos[k].ano = TRANSITION_YEARS[i].ano)
        /\ \A k \in EntryIdx : anos[k].fonte = "api-rtc"

\* C1 witness: exactly two calls failed and six entries were returned
C1_Witness ==
    /\ Returned_B
    /\ Cardinality(FailedYears) = 2
    /\ Len(anos) = 6

\* C2: the entries Mode B returns are in strictly ascending year order, in
\* whatever order the calls completed.
C2_AscendingYears ==
    Returned_B =>
        \A k \in EntryIdx : k < Len(anos) => anos[k].ano < anos[k + 1].ano

\* C2 witness: a list of several years returned after calls completed out of
\* year order
C2_Witness ==
    /\ Returned_B
    /\ outOfOrder
    /\ Len(anos) >= 3

\* C3: Mode B leaves the wait only once all eight calls have settled, and while
\* it waits every call still in flight can complete, whatever happened to the
\* others.
C3_WaitsForAll ==
    /\ (mode = "B" /\ pc # "gather") =>
           \A i \in YearIdx : pairs[i].tag # "pending"
    /\ (mode = "B" /\ pc = "gather") =>
           \A i \in YearIdx :
               pairs[i].tag = "pending" => ENABLED TaskReturns(i)

\* C3 witness: the calls settled in year order, the first failed, the last
\* succeeded after it, and the list was returned
C3_Witness ==
    /\ Returned_B
    /\ ~outOfOrder
    /\ pairs[1].tag = "Exception"
    /\ pairs[Len(TRANSITION_YEARS)].tag = "ok"

\* C4: Mode A returns eight entries for 2026..2033 in order; the 2026 entry
\* has one extracted line per external object; each later entry has one line
\* per invoice line, in input order, with the line's own number.
C4_ModeAShape ==
    (mode = "A" /\ pc # "start") =>
        /\ pc = "done"
        /\ Len(anos) = 8
        /\ \A k \in EntryIdx : anos[k].ano = 2025 + k
        /\ Len(anos[1].itens) = Len(objetos)
        /\ \A j \in 1..Len(objetos) :
              /\ anos[1].itens[j].numero = Get(objetos[j].nObj, 1)
              /\ anos[1].itens[j].baseCalculo = ObjFields(objetos[j]).vBC
              /\ anos[1].itens[j].cbs = Round2(ObjFields(objetos[j]).vCBS)
              /\ anos[1].itens[j].isInfo = PyNone
        /\ \A k \in 2..8 :
              /\ Len(anos[k].itens) = Len(itens_input)
              /\ \A j \in 1..Len(itens_input) :
                    /\ anos[k].itens[j].numero = itens_input[j].numero
                    /\ anos[k].itens[j].ncm = itens_input[j].ncm
                    /\ anos[k].itens[j].baseCalculo = itens_input[j].baseCalculo

\* C4 witness: two lines whose numbers are not their positions, and a
\* different number of external objects
C4_Witness ==
    /\ mode = "A" /\ pc = "done"
    /\ Len(itens_input) = 2
    /\ itens_input[1].numero = 7
    /\ itens_input[2].numero = 1
    /\ Len(objetos) = 1

\* C5: in every year entry of either mode, iva = cbs + ibs + is and
\* geral = iva + tributosAnteriores, with cbs, ibs, is the sums of the lines'
\* amounts and tributosAnteriores = icms + pisCofins + ipi; an entry without
\* lines has zero new-regime totals.
C5_TotalsIdentity ==
    Finished =>
        \A k \in EntryIdx :
            LET t == anos[k].total
                l == anos[k].itens
            IN  /\ t.cbs = SumSeq(Col(l, "cbs"))
                /\ t.ibs = SumSeq(Col(l, "ibs"))
                /\ t.is = SumSeq(Col(l, "is"))
                /\ t.iva = t.cbs + t.ibs + t.is
                /\ t.tributosAnteriores = t.icms + t.pisCofins + t.ipi
                /\ t.geral = t.iva + t.tributosAnteriores
                /\ (l = << >>) => (t.cbs = 0 /\ t.ibs = 0 /\ t.is = 0 /\ t.iva = 0)

\* C5 witness: a returned list with an entry without lines and an entry whose
\* two lines carry all three amounts, over a non-zero legacy residual
C5_Witness ==
    /\ Finished
    /\ \E k \in EntryIdx : anos[k].itens = << >>
    /\ \E k \in EntryIdx :
          /\ Len(anos[k].itens) = 2
          /\ anos[k].total.cbs > 0 /\ anos[k].total.ibs > 0 /\ anos[k].total.is > 0
          /\ anos[k].total.tributosAnteriores > 0

\* C6: the total of every line of every year equals the sum of the three
\* amounts that line reports.
C6_LineTotalIsSum ==
    Finished =>
        \A k \in EntryIdx : \A j \in 1..Len(anos[k].itens) :
            LET it == anos[k].itens[j]
            IN  it.total = it.cbs + it.ibs + it.is

Entry2026 == { k \in EntryIdx : anos[k].ano = 2026 }

\* C7 as stated: every line of the 2026 entry, and the 2026 total, has excise 0.
C7_Excise2026Zero ==
    Finished =>
        \A k \in Entry2026 :
            /\ anos[k].total.is = 0
            /\ \A j \in 1..Len(anos[k].itens) : anos[k].itens[j].is = 0

\* C7 amended: every line of the 2026 entry carries the excise amount of its
\* external object rounded to 2 decimals, 0 when the object has none, whatever
\* the commodity code of the line; the 2026 excise total is their sum.
C7_Excise2026FromExternal ==
    Finished =>
        \A k \in Entry2026 :
            /\ Len(anos[k].itens) = Len(objetos)
            /\ \A j \in 1..Len(objetos) :
                  anos[k].itens[j].is = Round2(ObjFields(objetos[j]).vIS)
            /\ anos[k].total.is =
                  SumSeq([j \in 1..Len(objetos) |-> Round2(ObjFields(objetos[j]).vIS)])

\* C7 witness: a 2026 line whose commodity code is in an excise category and
\* whose external object has no excise amount
C7_Witness ==
    /\ Finished
    /\ \E k \in Entry2026 : \E j \in 1..Len(anos[k].itens) :
          /\ detectar_is(anos[k].itens[j].ncm).tag = "dict"
          /\ ObjFields(objetos[j]).vIS = 0
          /\ anos[k].itens[j].is = 0

\* C8: in every year entry whose aplicaIS is false every line has isInfo none,
\* and every line extracted from an external result has isInfo none.
C8_NoClassificationWithoutFlag ==
    Finished =>
        \A k \in EntryIdx : \A j \in 1..Len(anos[k].itens) :
            (~anos[k].aplicaIS \/ mode = "B" \/ anos[k].ano = 2026) =>
                anos[k].itens[j].isInfo = PyNone

IsAlnum(c) ==
    \/ \E d \in 1..Len(Digit) : Digit[d] = c
    \/ c = "A"

\* the classification the claim describes: every non-alphanumeric character
\* stripped, then the first category holding the first 4 characters
ClassifyStripped(ncm) ==
    ScanCategories(Take4(SelectSeq(OrEmpty(ncm), IsAlnum)), 1)

\* C9: detectar_is classifies a code by the first 4 characters left after
\* stripping every non-alphanumeric character, so codes that differ only in
\* separators classify alike.
C9_StripsAllSeparators ==
    (mode = "IS" /\ isRet # << >>) => isRet[1] = ClassifyStripped(ncmArg)

\* the first four characters other than "." are not four digits
Malformed(ncm) ==
    LET h == Take4(RemoveDots(OrEmpty(ncm)))
    IN  \/ Len(h) < 4
        \/ \E k \in 1..Len(h) : \A d \in 1..Len(Digit) : Digit[d] # h[k]

CfgDe(entry) == TRANSITION_YEARS[entry.ano - 2025]

\* the baseline of end-to-end scenario 4
Cenario4 ==
    << [vICMS |-> 500000, vST |-> 0, vIPI |-> 0, vPIS |-> 100000,
        vCOFINS |-> 50000, vISS |-> 0] >>

\* C11: in every year entry of either mode, icms = round2((vICMS + vST + vISS)
\* x icms_fator), pisCofins = round2((vPIS + vCOFINS) x pisCofins_fator),
\* ipi = round2(vIPI x ipi_fator) and tributosAnteriores is their sum; the
\* baseline {icms 500, pis 100, cofins 50, ipi 0} gives 450.00, 0.00, 0.00 and
\* 450.00 in 2029; an absent or all-zero baseline gives zero residuals.
C11_LegacyResiduals ==
    Finished =>
        \A k \in EntryIdx :
            LET cfg == CfgDe(anos[k])
                ta  == IF tributos_atuais = << >> THEN ZeroTa ELSE tributos_atuais[1]
                t   == anos[k].total
            IN  /\ t.icms = Round2Mul(ta.vICMS + ta.vST + ta.vISS, cfg.icms_fator)
                /\ t.pisCofins = Round2Mul(ta.vPIS + ta.vCOFINS, cfg.pisCofins_fator)
                /\ t.ipi = Round2Mul(ta.vIPI, cfg.ipi_fator)
                /\ t.tributosAnteriores = t.icms + t.pisCofins + t.ipi
                /\ (tributos_atuais = Cenario4 /\ anos[k].ano = 2029) =>
                       /\ t.icms = 45000
                       /\ t.pisCofins = 0
                       /\ t.ipi = 0
                       /\ t.tributosAnteriores = 45000
                /\ (tributos_atuais = << >> \/ tributos_atuais = << ZeroTa >>) =>
                       /\ t.icms = 0
                       /\ t.pisCofins = 0
                       /\ t.ipi = 0
                       /\ t.tributosAnteriores = 0

\* C11 witness: the scenario baseline projected, its 2029 entry carrying an
\* ICMS residual of 450.00 and its 2026 entry the PIS/COFINS residual in full
C11_Witness ==
    /\ Finished
    /\ tributos_atuais = Cenario4
    /\ \E k \in EntryIdx : anos[k].ano = 2029 /\ anos[k].total.icms = 45000
    /\ \E k \in EntryIdx : anos[k].ano = 2026 /\ anos[k].total.pisCofins = 15000

\* C12: the schedule table has 8 entries whose years are 2026..2033 in order;
\* each decay factor lies in [0, 1] (0..10000 here) and never rises from one
\* year to the next; the cbs and ibs rates never fall from one year to the
\* next; aplica_is is false for 2026 and true for every other year.  Mode A
\* walks the table in this order.
C12_ScheduleMonotone ==
    LET T == TRANSITION_YEARS
    IN  /\ Len(T) = 8
        /\ (mode = "A" /\ pc = "done") =>
              \A k \in 1..Len(T) :
                  /\ anos[k].ano = T[k].ano
                  /\ anos[k].aplicaIS = T[k].aplica_is
        /\ \A i \in 1..Len(T) :
              /\ T[i].ano = 2025 + i
              /\ T[i].icms_fator \in 0..10000
              /\ T[i].pisCofins_fator \in 0..10000
              /\ T[i].ipi_fator \in 0..10000
              /\ T[i].aplica_is <=> (T[i].ano # 2026)
        /\ \A i \in 1..(Len(T) - 1) :
              /\ T[i].ano < T[i + 1].ano
              /\ T[i].icms_fator >= T[i + 1].icms_fator
              /\ T[i].pisCofins_fator >= T[i + 1].pisCofins_fator
              /\ T[i].ipi_fator >= T[i + 1].ipi_fator
              /\ T[i].cbs <= T[i + 1].cbs
              /\ T[i].ibs <= T[i + 1].ibs

\* C12 witness: Mode A has walked the whole table: eight entries, the first
\* for 2026 without selective tax, the last for 2033 with it, the ICMS
\* residual of a non-zero baseline falling from 2029 to 2030
C12_Witness ==
    /\ mode = "A" /\ pc = "done"
    /\ Len(anos) = 8
    /\ anos[1].ano = 2026 /\ ~anos[1].aplicaIS
    /\ anos[8].ano = 2033 /\ anos[8].aplicaIS
    /\ anos[1].aliqIbs <= anos[8].aliqIbs
    /\ anos[5].total.icms < anos[4].total.icms

\* C13: in every projected year of Mode A (2027..2033) every line has
\* cbs = round2(b x rateCBS), ibs = round2(b x rateIBS), excise =
\* round2(b x category.rate) when the year applies selective tax and
\* detectar_is matches the line's code and 0 otherwise, and total = the sum of
\* these rounded amounts; code "2401" with base 1000.00 in 2027 gives excise
\* 1000.00, cbs 88.00, ibs 1.00, total 1089.00; a line with excise > 0 has a
\* matched category as isInfo.
C13_ProjectedLine ==
    (mode = "A" /\ pc = "done") =>
        \A k \in 2..Len(anos) : \A j \in 1..Len(anos[k].itens) :
            LET cfg == CfgDe(anos[k])
                it  == anos[k].itens[j]
                b   == itens_input[j].baseCalculo
                cat == detectar_is(itens_input[j].ncm)
            IN  /\ anos[k].fonte = "simulado"
                /\ it.cbs = Round2Mul(b, cfg.cbs)
                /\ it.ibs = Round2Mul(b, cfg.ibs)
                /\ it.is = IF cfg.aplica_is /\ cat.tag = "dict"
                           THEN Round2Mul(b, cat.rate) ELSE 0
                /\ it.total = it.cbs + it.ibs + it.is
                /\ (it.is > 0) => (it.isInfo.tag = "dict" /\ it.isInfo = cat)
                /\ (itens_input[j].ncm = Str2401 /\ b = 1000000 /\ anos[k].ano = 2027) =>
                       /\ it.is = 100000
                       /\ it.cbs = 8800
                       /\ it.ibs = 100
                       /\ it.total = 108900

\* C13 witness: the scenario line beside a sugared-drink line of base 0.62,
\* whose 2027 amounts 0.05 + 0.00 + 0.12 add up to 0.17 where the unrounded
\* products add up to 0.18
C13_Witness ==
    /\ mode = "A" /\ pc = "done"
    /\ Len(itens_input) = 2
    /\ itens_input[1].ncm = Str2401 /\ itens_input[1].baseCalculo = 1000000
    /\ itens_input[2].ncm = Str2202 /\ itens_input[2].baseCalculo = 620
    /\ anos[2].ano = 2027
    /\ anos[2].itens[1].total = 108900
    /\ anos[2].itens[2].cbs = 5
    /\ anos[2].itens[2].ibs = 0
    /\ anos[2].itens[2].is = 12
    /\ anos[2].itens[2].total = 17

\* the keys of a LineResult
LineResultKeys ==
    {"numero", "ncm", "descricao", "baseCalculo", "cbs", "ibs", "is", "isInfo",
     "aliqCbs", "aliqIbs", "total"}

\* the gIBSCBS group and the IS group of an object, << >> when the group or a
\* group above it is missing
GrupoG(obj) ==
    IF obj.tribCalc = << >> THEN << >>
    ELSE IF obj.tribCalc[1].IBSCBS = << >> THEN << >>
    ELSE obj.tribCalc[1].IBSCBS[1].gIBSCBS
GrupoIS(obj) == IF obj.tribCalc = << >> THEN << >> ELSE obj.tribCalc[1].IS

\* a field of a group, << >> when the group or the field is missing
CampoDe(grupo, nome) == IF grupo = << >> THEN << >> ELSE grupo[1][nome]

\* the value a LineResult is to show for a field: 0 when it is missing
Valor(opt) == IF opt = << >> THEN 0 ELSE opt[1]

\* r is a LineResult of obj in which every missing amount or rate is 0
LinhaComDefaults(r, obj) ==
    LET g       == GrupoG(obj)
        vBC     == CampoDe(g, "vBC")
        vIBS    == CampoDe(g, "vIBS")
        vCBS    == CampoDe(CampoDe(g, "gCBS"), "vCBS")
        pCBS    == CampoDe(CampoDe(g, "gCBS"), "pCBS")
        pIBSUF  == CampoDe(CampoDe(g, "gIBSUF"), "pIBSUF")
        pIBSMun == CampoDe(CampoDe(g, "gIBSMun"), "pIBSMun")
        vIS     == CampoDe(GrupoIS(obj), "vIS")
    IN  /\ DOMAIN r = LineResultKeys
        /\ r.numero = IF obj.nObj = << >> THEN 1 ELSE obj.nObj[1]
        /\ r.baseCalculo = Valor(vBC)
        /\ r.ibs = Round2(Valor(vIBS))
        /\ r.cbs = Round2(Valor(vCBS))
        /\ r.is = Round2(Valor(vIS))
        /\ r.aliqCbs = Valor(pCBS)
        /\ r.aliqIbs = Valor(pIBSUF) + Valor(pIBSMun)
        /\ (vBC = << >>) => r.baseCalculo = 0
        /\ (vIBS = << >>) => r.ibs = 0
        /\ (vCBS = << >>) => r.cbs = 0
        /\ (vIS = << >>) => r.is = 0
        /\ (pCBS = << >>) => r.aliqCbs = 0
        /\ (pIBSUF = << >> /\ pIBSMun = << >>) => r.aliqIbs = 0
        /\ (vIBS = << >> /\ vCBS = << >> /\ vIS = << >>) => r.total = 0

Legado(t) ==
    [icms |-> t.icms, pisCofins |-> t.pisCofins, ipi |-> t.ipi,
     tributosAnteriores |-> t.tributosAnteriores]

\* C15: the legacy residuals and their total in a year entry of either mode
\* are those Mode A computes and those Mode B computes for the same baseline
\* and year over an invoice without lines and a result without objects: the
\* two modes agree, and the residuals depend neither on the lines nor on the
\* external results nor on which other calls failed.
C15_SameResidualsBothModes ==
    Finished =>
        \A k \in EntryIdx :
            LET cfg == CfgDe(anos[k])
                a   == AnoTransicao(cfg, << >>, << >>, tributos_atuais)
                b   == AnoRtc(cfg, << >>, << >>, tributos_atuais)
            IN  /\ Legado(anos[k].total) = Legado(a.total)
                /\ Legado(anos[k].total) = Legado(b.total)

\* C15 witness: Mode B returned over lines and objects with the 2026 and 2030
\* calls failed, the 2029 entry carrying a non-zero ICMS residual
C15_Witness ==
    /\ Returned_B
    /\ itens_input # << >> /\ objetos # << >>
    /\ pairs[1].tag = "Exception" /\ pairs[5].tag = "Exception"
    /\ \E k \in EntryIdx :
          /\ anos[k].ano = 2029
          /\ anos[k].total.icms > 0
          /\ anos[k].total.cbs > 0

\* the prefix set of category i
PrefixSet(i) ==
    { IS_CATEGORIES[i].prefixes[k] : k \in 1..Len(IS_CATEGORIES[i].prefixes) }

\* the categories whose prefix set holds prefix4
Matches(prefix4) ==
    { i \in 1..Len(IS_CATEGORIES) : prefix4 \in PrefixSet(i) }

\* C16: the prefix sets of the categories of IS_CATEGORIES are pairwise
\* disjoint, so the 4-character prefix of a code is in at most one of them and
\* what detectar_is returns is the category a scan in any order would find
\* (none when no category holds the prefix).
C16_DisjointPrefixes ==
    (mode = "IS" /\ isRet # << >>) =>
        LET prefix4 == Take4(RemoveDots(OrEmpty(ncmArg)))
        IN  /\ \A i, j \in 1..Len(IS_CATEGORIES) :
                  (i # j) => (PrefixSet(i) \cap PrefixSet(j) = {})
            /\ Cardinality(Matches(prefix4)) <= 1
            /\ \A i \in Matches(prefix4) : isRet[1] = IsDict(IS_CATEGORIES[i])
            /\ (Matches(prefix4) = {}) => (isRet[1] = PyNone)

\* C16 witness: a dotted code whose prefix is listed under the fifth category
\* was classified as that category
C16_Witness ==
    /\ mode = "IS"
    /\ isRet # << >>
    /\ ncmArg = <<"8", "9", ".", "0", "3", "1", "0">>
    /\ Matches(Take4(RemoveDots(ncmArg))) = {5}
    /\ isRet[1] = IsDict(IS_CATEGORIES[5])

\* C17: the resultado2026 field of the /calcular-rtc response describes year
\* 2026: it is built from the year entry whose ano is 2026 when there is one,
\* and it is the empty {objetos: [], total: {}} value when there is none,
\* whichever calls failed.
C17_Resultado2026Is2026 ==
    Returned_B =>
        /\ resultado2026 # << >>
        /\ \A k \in Entry2026 : resultado2026[1] = Resultado2026De(anos[k])
        /\ (Entry2026 = {}) => (resultado2026[1] = Resultado2026Vazio)

\* a post that failed with a connection error or a timeout
Indisponivel(o) ==
    /\ o.tag = "exc"
    /\ o.classe \in {"ConnectError", "ConnectTimeout", "ReadTimeout",
                     "WriteTimeout", "PoolTimeout"}

\* a post answered with a non-2xx status
NaoSucesso(o) == o.tag = "exc" /\ o.classe = "HTTPStatusError"

NTent == Len(tentativas)

C18_WitnessRaises ==
    /\ mode = "N"
    /\ pc = "raised"
    /\ \/ NTent = 2 /\ Indisponivel(tentativas[2])
       \/ NTent = 1 /\ NaoSucesso(tentativas[1]) /\ BASE_URL # LOCAL_URL

====
